---- MODULE Spec2Model ----
(***************************************************************************)
(* Connection synchronisation and interactive wiring of the GraphBoy       *)
(* canvas client (src/frontend/main.js): one client, its Konva stage, its  *)
(* connections Map, its pendingConnections queue, the wiring gesture       *)
(* globals, the debounce timer and the WebSocket it talks through.         *)
(*                                                                         *)
(* Every handler of the client runs to completion (single-threaded event   *)
(* loop), so every handler is one action.  Code that is called from        *)
(* several handlers (createWire, renderLoadedConnection,                   *)
(* processPendingConnections, the stage mouseup listener) is an operator   *)
(* from a record of the state it touches to the record after the call.     *)
(*                                                                         *)
(* Spec is the connection store, the queue, the gesture and the socket;    *)
(* FairSpec adds that a pending debounce timer fires; MoveSpec adds the    *)
(* dragging of component groups about the stage, ProtocolSpec the inbound  *)
(* data that is not a well-formed message, PointerSpec the release of the  *)
(* pointer outside the canvas, StoreSpec a second createWire for a stored  *)
(* id.  PeersSpec is two such clients, with all their components drawn,    *)
(* and the server that reflects their messages; ChatSpec is the loading    *)
(* state of the chat component (src/frontend/AIChatInterface.js).          *)
(***************************************************************************)
EXTENDS Integers, Sequences, FiniteSets, TLC

\* ------------------------------------------------------------------ bounds
MaxConnIds == 1     \* distinct connection ids this client ever sees
MaxDrafts == 2      \* dashed draft lines that can be on the stage at once
MaxInbound == 2     \* inbound messages the socket delivers
MaxPeerIds == 2     \* connections the two clients of the relay commit
MaxPeerDeletes == 2 \* context-menu deletes the two clients make
MaxSubmits == 2     \* requests the chat component sends
MaxPushes == 2      \* component.emitOutput pushes the chat component gets

\* the component groups that can come onto the stage, by id
NodeIds == {"n1", "n2"}
ConnIds == 1..MaxConnIds

\* ------------------------------------------------------- values of the code
\* null for currentWire (a line object)
NoLine == <<0, 0>>
\* id() of a line that was given no id (the dashed draft line)
NoId == 0
\* null for startPort
NoPort == [node |-> "", name |-> ""]
\* the names of the two Circles of every component group
PortNames == {"input", "output"}
\* e.target.name() of the shapes a mouseup can land on other than an input
\* port: the stage or a shape without a name (""), an output port
OtherTargets == {"", "output"}

Port(n, name) == [node |-> n, name |-> name]

\* the places on the stage a component group can be dragged to, and the one
\* where the pointer drops a new group: a group is draggable from the moment
\* it is dropped, so dragging takes it from there to every place
Places == {0, 1}
DropPlaces == {0}
\* points() of the dashed draft line: they follow the pointer and no handler
\* of the connection store reads them
NoPoints == <<>>

\* params of v1.connection.create / v1.connection.created / v1.connection.load
Descriptor(id, sc, sp, tc, tp) ==
    [connectionId |-> id, sourceComponentId |-> sc, sourcePortName |-> sp,
     targetComponentId |-> tc, targetPortName |-> tp]

\* the params of a message that has no params, and the descriptor slot of a
\* handler that received none; a field a message lacks (undefined) is ""
NoParams == Descriptor(NoId, "", "", "", "")

\* the descriptors inbound messages carry in this model: a wire from the
\* output port of any node to the input port of any node (the same node
\* included), and from n1 to n2 a wire with the ports reversed and two wires
\* naming a port that no component group has
Descriptors(ids) ==
    {Descriptor(id, sc, "output", tc, "input") :
        id \in ids, sc \in NodeIds, tc \in NodeIds}
    \cup {Descriptor(id, "n1", "input", "n2", "output") : id \in ids}
    \cup {Descriptor(id, "n1", "aux", "n2", "input") : id \in ids}
    \cup {Descriptor(id, "n1", "output", "n2", "aux") : id \in ids}

VARIABLES
    nodes,               \* ids of the component groups on mainLayer
    pos,                 \* position() of each component group
    draggable,           \* draggable() of each component group
    lines,               \* Konva.Line objects on mainLayer: line -> [id, points]
    connections,         \* the Map: connection id -> [id, from, to, line]
    pendingConnections,  \* the queue of descriptors waiting for components
    isWiring,            \* gesture globals
    currentWire,
    startPort,
    readyState,          \* socket.readyState
    timeout,             \* debounce: the timer its variable refers to is pending
    timers,              \* timers setTimeout started, not yet fired or cleared
    nextConn,            \* number of connection ids seen so far
    inbound,             \* number of inbound messages handled so far
    lastOp,              \* the handler that ran last, its input and outcome
    peers,               \* two clients of one relay: their stores and channels
    chat                 \* the chat component: its React state and refs

vars == <<nodes, pos, draggable, lines, connections, pendingConnections, isWiring,
          currentWire, startPort, readyState, timeout, timers, nextConn, inbound, lastOp,
          peers, chat>>

\* ------------------------------------------------------------ Konva stage
\* the lines on the stage whose id() is id
LinesWithId(ls, id) == {h \in DOMAIN ls : ls[h].id = id}

\* the dashed draft lines on the stage
Drafts(ls) == LinesWithId(ls, NoId)

\* (mutant) the lookup never finds the line
findOne_Never(ls, id) == NoLine

\* mainStage.findOne('#' + id), for a connection id: a line, or null
findOne(ls, id) ==
    IF LinesWithId(ls, id) = {} THEN NoLine
    ELSE CHOOSE h \in LinesWithId(ls, id) : TRUE

\* new Konva.Line({id: ...}): an object distinct from every line that is on
\* the stage or still referenced by the Map.  A line object is named by its
\* id and a serial number that tells it from the other lines with that id.
NewLine(ls, conns, id) ==
    LET used == DOMAIN ls \cup {conns[i].line : i \in DOMAIN conns}
        k == CHOOSE j \in 1..(Cardinality(used) + 1) :
                /\ <<id, j>> \notin used
                /\ \A i \in 1..(j - 1) : <<id, i>> \in used
    IN  <<id, k>>

\* (mutant) the line stays on the stage
destroy_Keeps(ls, h) == ls

\* line.destroy(): the line leaves the stage (no effect when already gone)
destroy(ls, h) == [x \in DOMAIN ls \ {h} |-> ls[x]]

\* port.getAbsolutePosition(), with the component groups at ps: the place of
\* the port's group and the port's offset in the group (that of its name)
getAbsolutePosition(ps, port) == [at |-> ps[port.node], off |-> port.name]

\* component.find(node => node.name() === name && className === 'Circle'):
\* the Circle with that name in the group, or null
findPort(n, name) == IF name \in PortNames THEN Port(n, name) ELSE NoPort

\* ------------------------------------------------------- pending queue
\* pendingConnections.find(p => p.connectionId === id) is truthy
IsQueued(q, id) == \E i \in 1..Len(q) : q[i].connectionId = id

\* pendingConnections.findIndex(...), 1-based; 0 for -1
findIndex(q, id) ==
    IF IsQueued(q, id)
    THEN CHOOSE i \in 1..Len(q) :
            /\ q[i].connectionId = id
            /\ \A j \in 1..(i - 1) : q[j].connectionId # id
    ELSE 0

\* (mutant) nothing is removed
splice_Keep(q, i) == q

\* pendingConnections.splice(i, 1)
splice(q, i) == [j \in 1..(Len(q) - 1) |-> IF j < i THEN q[j] ELSE q[j + 1]]

\* (mutant) a descriptor that fails again while queued is taken off the queue
Queue_DropsRetried(q, params) ==
    IF IsQueued(q, params.connectionId)
    THEN SelectSeq(q, LAMBDA d : d.connectionId # params.connectionId)
    ELSE Append(q, params)

\* (mutant) the descriptor is pushed without looking for its id in the queue
Queue_Always(q, params) == Append(q, params)

\* the queueing block of renderLoadedConnection: push a copy of params unless
\* a descriptor with the same connectionId is already queued
Queue(q, params) ==
    IF IsQueued(q, params.connectionId) THEN q ELSE Append(q, params)

\* ------------------------------------------------------ connection store
\* The operators below work on a record g of the state they touch:
\*   g.lines, g.connections, g.pending, g.pos, which they only read, and
\*   g.draws, the number of mainLayer.draw() calls createWire and the drain
\*   pass have made, and g.tried, the ids the drain pass has called
\*   renderLoadedConnection for, in order

\* (mutant) the line goes on the stage and no Map entry is set
createWire_NoStore(g, id, fromPort, toPort) ==
    LET wire == NewLine(g.lines, g.connections, id)
        sourcePos == getAbsolutePosition(g.pos, fromPort)
        targetPos == getAbsolutePosition(g.pos, toPort)
    IN  [g |-> [g EXCEPT
                  !.lines = (wire :> [id |-> id,
                                      points |-> <<sourcePos, targetPos>>])
                            @@ g.lines,
                  !.draws = g.draws + 1],
         wire |-> wire]

\* createWire({id, fromPort, toPort}): a new line with this id goes on the
\* stage and the Map entry for id is set; returns the state and the wire
createWire(g, id, fromPort, toPort) ==
    LET wire == NewLine(g.lines, g.connections, id)
        sourcePos == getAbsolutePosition(g.pos, fromPort)
        targetPos == getAbsolutePosition(g.pos, toPort)
    IN  [g |-> [g EXCEPT
                  !.lines = (wire :> [id |-> id,
                                      points |-> <<sourcePos, targetPos>>])
                            @@ g.lines,
                  !.connections =
                      (id :> [id |-> id, from |-> fromPort, to |-> toPort,
                              line |-> wire]) @@ g.connections,
                  !.draws = g.draws + 1],
         wire |-> wire]

\* (mutant) a line found on the stage without a Map entry is left without one
renderLoadedConnection_NoAdopt(g, ns, params) ==
    LET id == params.connectionId
        sourceComponent == params.sourceComponentId \in ns
        targetComponent == params.targetComponentId \in ns
        sourceOutputPort == findPort(params.sourceComponentId, params.sourcePortName)
        targetInputPort == findPort(params.targetComponentId, params.targetPortName)
        deferred == [g |-> [g EXCEPT !.pending = Queue(g.pending, params)],
                     ok |-> FALSE, path |-> "deferred"]
    IN  IF ~sourceComponent \/ ~targetComponent THEN deferred
        ELSE IF sourceOutputPort = NoPort \/ targetInputPort = NoPort THEN deferred
        ELSE
          LET pendingIndex == findIndex(g.pending, id)
              g1 == IF pendingIndex > 0
                    THEN [g EXCEPT !.pending = splice(g.pending, pendingIndex)]
                    ELSE g
              konvaLineExists == findOne(g1.lines, id)
              mapEntryExists == id \in DOMAIN g1.connections
          IN  IF konvaLineExists # NoLine
              THEN [g |-> g1, ok |-> TRUE, path |-> "existing"]
              ELSE [g |-> createWire(g1, id, sourceOutputPort, targetInputPort).g,
                    ok |-> TRUE, path |-> "new"]

\* renderLoadedConnection(params) with the component groups ns on the stage.
\* ok is the value returned; path names the return statement taken:
\* "deferred" (queued), "existing" (a line with the id was on the stage),
\* "new" (createWire was called)
renderLoadedConnection(g, ns, params) ==
    LET id == params.connectionId
        sourceComponent == params.sourceComponentId \in ns
        targetComponent == params.targetComponentId \in ns
        sourceOutputPort == findPort(params.sourceComponentId, params.sourcePortName)
        targetInputPort == findPort(params.targetComponentId, params.targetPortName)
        deferred == [g |-> [g EXCEPT !.pending = Queue(g.pending, params)],
                     ok |-> FALSE, path |-> "deferred"]
    IN  IF ~sourceComponent \/ ~targetComponent THEN deferred
        ELSE IF sourceOutputPort = NoPort \/ targetInputPort = NoPort THEN deferred
        ELSE
          LET pendingIndex == findIndex(g.pending, id)
              g1 == IF pendingIndex > 0
                    THEN [g EXCEPT !.pending = splice(g.pending, pendingIndex)]
                    ELSE g
              konvaLineExists == findOne(g1.lines, id)
              mapEntryExists == id \in DOMAIN g1.connections
          IN  IF konvaLineExists # NoLine
              THEN [g |-> IF ~mapEntryExists
                          THEN [g1 EXCEPT !.connections =
                                  (id :> [id |-> id, from |-> sourceOutputPort,
                                          to |-> targetInputPort,
                                          line |-> konvaLineExists])
                                  @@ g1.connections]
                          ELSE g1,
                    ok |-> TRUE, path |-> "existing"]
              ELSE [g |-> createWire(g1, id, sourceOutputPort, targetInputPort).g,
                    ok |-> TRUE, path |-> "new"]

\* (mutant) the Map entry is deleted but its line is not destroyed
removeConnection_KeepLine(g, id) ==
    IF id \in DOMAIN g.connections
    THEN [g |-> [g EXCEPT
                   !.connections = [i \in DOMAIN g.connections \ {id} |->
                                       g.connections[i]]],
          found |-> TRUE]
    ELSE [g |-> g, found |-> FALSE]

\* (mutant) an id the Map does not have is dropped from the queue
removeConnection_DropQueued(g, id) ==
    IF id \in DOMAIN g.connections
    THEN [g |-> [g EXCEPT
                   !.lines = IF g.connections[id].line # NoLine
                             THEN destroy(g.lines, g.connections[id].line)
                             ELSE g.lines,
                   !.connections = [i \in DOMAIN g.connections \ {id} |->
                                       g.connections[i]]],
          found |-> TRUE]
    ELSE [g |-> [g EXCEPT !.pending =
                    IF IsQueued(g.pending, id)
                    THEN splice(g.pending, findIndex(g.pending, id))
                    ELSE g.pending],
          found |-> FALSE]

\* the v1.connection.removed branch of socket.onmessage for connection id:
\* found tells whether the Map had an entry
removeConnection(g, id) ==
    IF id \in DOMAIN g.connections
    THEN [g |-> [g EXCEPT
                   !.lines = IF g.connections[id].line # NoLine
                             THEN destroy(g.lines, g.connections[id].line)
                             ELSE g.lines,
                   !.connections = [i \in DOMAIN g.connections \ {id} |->
                                       g.connections[i]]],
          found |-> TRUE]
    ELSE [g |-> g, found |-> FALSE]

\* (mutant) a descriptor that cannot be rendered yet is not queued
handleCreated_DropsUnresolved(g, ns, params) ==
    IF params.connectionId \in DOMAIN g.connections
    THEN [g |-> g, ok |-> FALSE, path |-> "ignored"]
    ELSE LET r == renderLoadedConnection(g, ns, params)
         IN  IF r.ok THEN r ELSE [g |-> g, ok |-> FALSE, path |-> "deferred"]

\* (mutant) the Map is not consulted
handleCreated_NoCheck(g, ns, params) == renderLoadedConnection(g, ns, params)

\* the v1.connection.created branch of socket.onmessage: an id the Map has
\* is ignored, any other goes to renderLoadedConnection
handleCreated(g, ns, params) ==
    IF params.connectionId \in DOMAIN g.connections
    THEN [g |-> g, ok |-> FALSE, path |-> "ignored"]
    ELSE renderLoadedConnection(g, ns, params)

\* the forEach of processPendingConnections over the snapshot ids, from
\* position i on, and the mainLayer.draw() after it; count is
\* successfullyRenderedCount
RECURSIVE RetryFrom(_, _, _, _, _)
RetryFrom(g, ns, ids, i, count) ==
    IF i > Len(ids)
    THEN [g |-> IF count > 0 THEN [g EXCEPT !.draws = g.draws + 1] ELSE g,
          count |-> count]
    ELSE IF ~IsQueued(g.pending, ids[i])
         THEN RetryFrom(g, ns, ids, i + 1, count)
         ELSE LET params == g.pending[findIndex(g.pending, ids[i])]
                  r == renderLoadedConnection(
                           [g EXCEPT !.tried = Append(g.tried, ids[i])],
                           ns, params)
              IN  RetryFrom(r.g, ns, ids, i + 1,
                            IF r.ok THEN count + 1 ELSE count)

\* (mutant) the pass goes over the snapshot of ids twice
processPendingConnections_TwoRounds(g, ns) ==
    LET connectionIdsToRetry ==
            [i \in 1..Len(g.pending) |-> g.pending[i].connectionId]
    IN  RetryFrom(g, ns, connectionIdsToRetry \o connectionIdsToRetry, 1, 0)

\* processPendingConnections(): one drain pass
processPendingConnections(g, ns) ==
    LET connectionIdsToRetry ==
            [i \in 1..Len(g.pending) |-> g.pending[i].connectionId]
    IN  RetryFrom(g, ns, connectionIdsToRetry, 1, 0)

\* ------------------------------------------------------- socket.onmessage
\* event.data as the handler sees it: json tells whether JSON.parse returns
\* (FALSE: it throws), method and params are the fields of the parsed
\* object, params = NoParams when the object has none
Payload(json, method, params) ==
    [json |-> json, method |-> method, params |-> params]

\* (mutant) the catch block clears the queue
onmessage_ResetOnError(g, ns, data) ==
    IF ~data.json THEN [g |-> [g EXCEPT !.pending = <<>>], res |-> "caught"]
    ELSE [g |-> g, res |-> "unhandled"]

\* (mutant) a method that no branch names is handled like v1.connection.load
onmessage_ElseLoads(g, ns, data) ==
    IF ~data.json THEN [g |-> g, res |-> "caught"]
    ELSE IF data.params = NoParams THEN [g |-> g, res |-> "rejected"]
    ELSE LET r == renderLoadedConnection(g, ns, data.params)
         IN  [g |-> r.g, res |-> r.path]

\* (mutant) v1.connection.removed is not handled
onmessage_DropsRemoved(g, ns, data) ==
    IF ~data.json THEN [g |-> g, res |-> "caught"]
    ELSE IF data.method = "v1.connection.created"
    THEN IF data.params = NoParams THEN [g |-> g, res |-> "caught"]
         ELSE LET r == handleCreated(g, ns, data.params)
              IN  [g |-> r.g, res |-> r.path]
    ELSE [g |-> g, res |-> "unhandled"]

\* socket.onmessage(event): JSON.parse and the if / else-if chain on
\* parsedMessage.method, all inside try { } catch.  res names the way out:
\* "caught" (the catch block ran: JSON.parse threw, or a branch read a field
\* of the params the message does not have), "rejected" (load without
\* params), the path of renderLoadedConnection or handleCreated, "removed" /
\* "notfound", "output" (component.emitOutput, which writes a text node and
\* nothing of the state here), "unhandled" (no branch names the method)
onmessage(g, ns, data) ==
    IF ~data.json THEN [g |-> g, res |-> "caught"]
    ELSE IF data.method = "v1.connection.load"
    THEN IF data.params = NoParams THEN [g |-> g, res |-> "rejected"]
         ELSE LET r == renderLoadedConnection(g, ns, data.params)
              IN  [g |-> r.g, res |-> r.path]
    ELSE IF data.method = "component.emitOutput"
    THEN IF data.params = NoParams THEN [g |-> g, res |-> "caught"]
         ELSE [g |-> g, res |-> "output"]
    ELSE IF data.method = "v1.connection.created"
    THEN IF data.params = NoParams THEN [g |-> g, res |-> "caught"]
         ELSE LET r == handleCreated(g, ns, data.params)
              IN  [g |-> r.g, res |-> r.path]
    ELSE IF data.method = "v1.connection.removed"
    THEN IF data.params = NoParams THEN [g |-> g, res |-> "caught"]
         ELSE LET r == removeConnection(g, data.params.connectionId)
              IN  [g |-> r.g, res |-> IF r.found THEN "removed" ELSE "notfound"]
    ELSE [g |-> g, res |-> "unhandled"]

\* ------------------------------------------------------ wiring gesture
\* (mutant) the origin node's dragging is not re-enabled on cancel
stageMouseUp_StaysLocked(w, name) ==
    IF w.isWiring /\ name # "input"
    THEN [res |-> "cancel",
          w |-> [isWiring |-> FALSE, currentWire |-> NoLine, startPort |-> NoPort,
                 lines |-> IF w.currentWire # NoLine
                           THEN destroy(w.lines, w.currentWire) ELSE w.lines,
                 draggable |-> w.draggable]]
    ELSE [res |-> "none", w |-> w]

\* (mutant) a cancel leaves the draft line in currentWire
stageMouseUp_KeepsWire(w, name) ==
    IF w.isWiring /\ name # "input"
    THEN [res |-> "cancel",
          w |-> [isWiring |-> FALSE, currentWire |-> w.currentWire,
                 startPort |-> NoPort, lines |-> w.lines,
                 draggable |-> IF w.startPort # NoPort
                               THEN [w.draggable EXCEPT ![w.startPort.node] = TRUE]
                               ELSE w.draggable]]
    ELSE IF ~w.isWiring /\ w.currentWire # NoLine
    THEN [res |-> "cleanup",
          w |-> [w EXCEPT !.lines = destroy(w.lines, w.currentWire),
                          !.currentWire = NoLine]]
    ELSE [res |-> "none", w |-> w]

\* The stage 'mouseup' listener on the gesture globals
\*   w.isWiring, w.currentWire, w.startPort, w.lines, w.draggable
\* for a mouseup whose target has the given name()
stageMouseUp(w, name) ==
    IF w.isWiring /\ name # "input"
    THEN [res |-> "cancel",
          w |-> [isWiring |-> FALSE, currentWire |-> NoLine, startPort |-> NoPort,
                 lines |-> IF w.currentWire # NoLine
                           THEN destroy(w.lines, w.currentWire) ELSE w.lines,
                 draggable |-> IF w.startPort # NoPort
                               THEN [w.draggable EXCEPT ![w.startPort.node] = TRUE]
                               ELSE w.draggable]]
    ELSE IF ~w.isWiring /\ w.currentWire # NoLine
    THEN [res |-> "cleanup",
          w |-> [w EXCEPT !.lines = destroy(w.lines, w.currentWire),
                          !.currentWire = NoLine]]
    ELSE [res |-> "none", w |-> w]

\* (mutant) the parents of the two ports are not compared
canCommit_AnyNode(w, n) == w.isWiring /\ w.startPort # NoPort

\* the condition of the inputPort 'mouseup' listener under which the release
\* on the input port of component group n completes a wire
canCommit(w, n) == w.isWiring /\ w.startPort # NoPort /\ w.startPort.node # n

\* mainStage.getPointerPosition() with the pointer at place p of the stage
PointerAt(p) == [at |-> p, off |-> "pointer"]

\* (mutant) the move sets both ends of the draft line to the pointer
mousemove_BothEnds(w, pointer) ==
    IF w.isWiring /\ w.currentWire \in DOMAIN w.lines
    THEN [w.lines EXCEPT ![w.currentWire].points = <<pointer, pointer>>]
    ELSE w.lines

\* the mainStage 'mousemove' listener with the pointer at pointer: the lines
\* after it.  A line that was destroyed is no longer on the stage, setting
\* its points changes nothing there.
mousemove(w, pointer) ==
    IF w.isWiring /\ w.currentWire \in DOMAIN w.lines
    THEN [w.lines EXCEPT ![w.currentWire].points =
                            <<w.lines[w.currentWire].points[1], pointer>>]
    ELSE w.lines

\* ------------------------------------------------------------ moving nodes
\* (mutant) only the wires that start at the dragged group follow it
dragmove_SourceOnly(g, ps, n) ==
    LET moved(h) ==
            LET owners == {i \in DOMAIN g.connections : g.connections[i].line = h}
            IN  IF owners = {} THEN g.lines[h]
                ELSE LET c == g.connections[CHOOSE i \in owners : TRUE]
                         pts == g.lines[h].points
                     IN  [g.lines[h] EXCEPT !.points =
                            IF c.from.node = n
                            THEN <<getAbsolutePosition(ps, c.from), pts[2]>>
                            ELSE pts]
    IN  [h \in DOMAIN g.lines |-> moved(h)]

\* the componentGroup 'dragmove' listener of group n, with the groups at ps:
\* connections.forEach sets points [0..1] of the line of every connection
\* that starts at a port of n, and points [2..3] of the line of every
\* connection that ends at one.  An entry's line carries the entry's id, so
\* no two entries share a line; the lines of the stage after the loop
dragmove(g, ps, n) ==
    LET moved(h) ==
            LET owners == {i \in DOMAIN g.connections : g.connections[i].line = h}
            IN  IF owners = {} THEN g.lines[h]
                ELSE LET c == g.connections[CHOOSE i \in owners : TRUE]
                         pts == g.lines[h].points
                         pts1 == IF c.from.node = n
                                 THEN <<getAbsolutePosition(ps, c.from), pts[2]>>
                                 ELSE pts
                         pts2 == IF c.to.node = n
                                 THEN <<pts1[1], getAbsolutePosition(ps, c.to)>>
                                 ELSE pts1
                     IN  [g.lines[h] EXCEPT !.points = pts2]
    IN  [h \in DOMAIN g.lines |-> moved(h)]

\* ---------------------------------------------------------------- messages
\* (mutant) source and target are exchanged in the message
CreateMessage_Swapped(id, sc, sp, tc, tp) ==
    [method |-> "v1.connection.create", params |-> Descriptor(id, tc, tp, sc, sp)]

CreateMessage(id, sc, sp, tc, tp) ==
    [method |-> "v1.connection.create", params |-> Descriptor(id, sc, sp, tc, tp)]

\* (mutant) the message is handed to the socket whatever its readyState
send_Unchecked(rs, message) == <<message>>

\* if (socket.readyState === WebSocket.OPEN) socket.send(...): the messages
\* that leave, with the socket in readyState rs
send(rs, message) == IF rs = "OPEN" THEN <<message>> ELSE <<>>

DeleteMessage(id) ==
    [method |-> "v1.connection.delete", params |-> [connectionId |-> id]]


\* what the handler that ran last was given (a node or target name, a
\* connection id, a descriptor) and what it did (outcome, number of queue
\* entries retried, messages sent)
Op(op, arg, id, params, res, count, out) ==
    [op |-> op, arg |-> arg, id |-> id, params |-> params,
     res |-> res, count |-> count, out |-> out]

G == [lines |-> lines, connections |-> connections, pending |-> pendingConnections,
      pos |-> pos, draws |-> 0, tried |-> <<>>]

W == [isWiring |-> isWiring, currentWire |-> currentWire, startPort |-> startPort,
      lines |-> lines, draggable |-> draggable]

\* ------------------------------------------- two clients and the relay
\* Two clients run main.js against one server.  Each has the same component
\* groups on its canvas and an OPEN socket.  peers.store[c] is client c's
\* stage, Map and queue (a record as G), peers.up[c] the messages c has sent
\* that the relay has not handled yet, peers.down[c] the messages the relay
\* has sent to c that c has not handled yet.
Clients == {"a", "b"}
PeerIds == 1..MaxPeerIds

EmptyStore ==
    [lines |-> [h \in {} |-> [id |-> NoId, points |-> NoPoints]],
     connections |-> [i \in {} |-> NoLine],
     pending |-> <<>>,
     pos |-> [n \in NodeIds |-> 0],
     draws |-> 0, tried |-> <<>>]

PeersInit ==
    [store |-> [c \in Clients |-> EmptyStore],
     up |-> [c \in Clients |-> <<>>],
     down |-> [c \in Clients |-> <<>>],
     minted |-> 0,
     deletes |-> 0]

\* the relay reflects an accepted mutation to the clients in the form their
\* socket.onmessage handles: a create as v1.connection.created with the
\* same params, a delete as v1.connection.removed with the connection id
RelayForm(m) ==
    IF m.method = "v1.connection.create"
    THEN Payload(TRUE, "v1.connection.created", m.params)
    ELSE Payload(TRUE, "v1.connection.removed",
                 Descriptor(m.params.connectionId, "", "", "", ""))

\* q without its i-th message
Without(q, i) == [j \in 1..(Len(q) - 1) |-> IF j < i THEN q[j] ELSE q[j + 1]]

\* the i-th message of q is the oldest one in q about its connection
OldestOfItsConnection(q, i) ==
    \A j \in 1..(i - 1) : q[j].params.connectionId # q[i].params.connectionId

\* ------------------------------------------------------ chat component
\* AIChatInterface: isLoading is the React state, readyState the socket's,
\* messageIdCounter and pendingRequests the refs; timers are the ids whose
\* 30 s setTimeout has not fired yet, unanswered the ids the server has not
\* answered yet, pushes the number of component.emitOutput messages so far,
\* last the handler that ran last
ChatInit ==
    [isLoading |-> FALSE, readyState |-> "CONNECTING", messageIdCounter |-> 0,
     pendingRequests |-> {}, timers |-> {}, unanswered |-> {}, pushes |-> 0,
     last |-> "init"]

\* the outputName values of the branches of the emitOutput handler, and one
\* that no branch names
OutputNames == {"responseText", "responseStream", "error", "other"}

\* the shapes of an answer to component.updateInput: a result whose status
\* is success, one whose status is error, a result of another shape, and a
\* JSON-RPC error
AnswerKinds == {"success", "error", "other", "rpcError"}

\* the continuation of handleSubmit after Promise.race settles with the
\* answer of the given kind: what isLoading becomes
afterRace(isLoading, kind) ==
    IF kind \in {"error", "rpcError", "rejected"} THEN FALSE ELSE isLoading

\* ------------------------------------------------------------------- Init
Init ==
    /\ nodes = {}
    /\ pos = [n \in {} |-> 0]
    /\ draggable = [n \in {} |-> TRUE]
    /\ lines = [h \in {} |-> [id |-> NoId, points |-> NoPoints]]
    /\ connections = [i \in {} |-> NoLine]
    /\ pendingConnections = <<>>
    /\ isWiring = FALSE
    /\ currentWire = NoLine
    /\ startPort = NoPort
    /\ readyState = "CONNECTING"
    /\ timeout = FALSE
    /\ timers = 0
    /\ nextConn = 0
    /\ inbound = 0
    /\ lastOp = Op("init", "", NoId, NoParams, "", 0, <<>>)
    /\ peers = PeersInit
    /\ chat = ChatInit

\* ---------------------------------------------------------------- actions
\* the ids an inbound message can carry: one this client has seen, or the
\* next new one (ids are unique: a new id differs from every id seen)
InboundIds == 1..(IF nextConn < MaxConnIds THEN nextConn + 1 ELSE MaxConnIds)

Seen(id) == IF id > nextConn THEN id ELSE nextConn

\* socket.onopen / socket.onclose: the socket is created once and is never
\* reopened
SocketOpen ==
    /\ readyState = "CONNECTING"
    /\ readyState' = "OPEN"
    /\ lastOp' = Op("open", "", NoId, NoParams, "", 0, <<>>)
    /\ UNCHANGED <<nodes, pos, draggable, lines, connections, pendingConnections,
                   isWiring, currentWire, startPort, timeout, timers, nextConn, inbound, peers, chat>>

SocketClose ==
    /\ readyState \in {"CONNECTING", "OPEN"}
    /\ readyState' = "CLOSED"
    /\ lastOp' = Op("close", "", NoId, NoParams, "", 0, <<>>)
    /\ UNCHANGED <<nodes, pos, draggable, lines, connections, pendingConnections,
                   isWiring, currentWire, startPort, timeout, timers, nextConn, inbound, peers, chat>>

\* debounce(func, 16), on a record t of its closure variable and the
\* browser's timers: t.timeout tells whether the timer the variable refers
\* to is pending, t.timers counts the pending timers that run later()

\* (mutant) the returned function starts a timer without clearing the old one
executedFunction_NoClear(t) ==
    [timeout |-> TRUE, timers |-> t.timers + 1]

\* the returned function: clearTimeout(timeout); timeout = setTimeout(later)
executedFunction(t) ==
    LET cleared == IF t.timeout THEN t.timers - 1 ELSE t.timers
    IN  [timeout |-> TRUE, timers |-> cleared + 1]

\* later(), run by the oldest pending timer: clearTimeout(timeout) clears
\* the timer the variable refers to when that is another, newer one
later(t) ==
    [timeout |-> FALSE,
     timers |-> IF t.timeout /\ t.timers >= 2 THEN t.timers - 2
                ELSE t.timers - 1]

\* a component group with id n and its two ports goes on mainLayer (the
\* 'dragend' of the sidebar component inside the stage); the stage 'add'
\* listener then calls the debounced drain, which (re)starts the timer
\* (mutant) the 'add' listener calls processPendingConnections itself
AddNode_Undebounced(n) ==
    /\ n \notin nodes
    /\ nodes' = nodes \cup {n}
    /\ \E p \in DropPlaces : pos' = (n :> p) @@ pos
    /\ draggable' = (n :> TRUE) @@ draggable
    /\ LET r == processPendingConnections([G EXCEPT !.pos = pos'], nodes')
       IN  /\ lines' = r.g.lines
           /\ connections' = r.g.connections
           /\ pendingConnections' = r.g.pending
    /\ lastOp' = Op("add", n, NoId, NoParams, "", 0, <<>>)
    /\ UNCHANGED <<isWiring, currentWire, startPort, readyState, nextConn,
                   inbound, timeout, timers, peers, chat>>

\* (mutant) the 'add' listener does not schedule the debounced drain
AddNode_NoDrain(n) ==
    /\ n \notin nodes
    /\ nodes' = nodes \cup {n}
    /\ \E p \in DropPlaces : pos' = (n :> p) @@ pos
    /\ draggable' = (n :> TRUE) @@ draggable
    /\ lastOp' = Op("add", n, NoId, NoParams, "", 0, <<>>)
    /\ UNCHANGED <<lines, connections, pendingConnections, isWiring,
                   currentWire, startPort, readyState, nextConn, inbound,
                   timeout, timers, peers, chat>>

AddNode(n) ==
    /\ n \notin nodes
    /\ nodes' = nodes \cup {n}
    /\ \E p \in DropPlaces : pos' = (n :> p) @@ pos
    /\ draggable' = (n :> TRUE) @@ draggable
    /\ LET t == executedFunction([timeout |-> timeout, timers |-> timers])
       IN  timeout' = t.timeout /\ timers' = t.timers
    /\ lastOp' = Op("add", n, NoId, NoParams, "", 0, <<>>)
    /\ UNCHANGED <<lines, connections, pendingConnections, isWiring,
                   currentWire, startPort, readyState, nextConn, inbound, peers, chat>>

\* Konva drags component group n to place p and fires its 'dragmove'
\* listener; Konva drags only a group whose draggable() is true
DragMove(n, p) ==
    /\ n \in nodes
    /\ draggable[n]
    /\ p # pos[n]
    /\ pos' = [pos EXCEPT ![n] = p]
    /\ lines' = dragmove(G, pos', n)
    /\ lastOp' = Op("dragmove", n, NoId, NoParams, "", 0, <<>>)
    /\ UNCHANGED <<nodes, draggable, connections, pendingConnections, isWiring,
                   currentWire, startPort, readyState, timeout, timers, nextConn,
                   inbound, peers, chat>>

\* the debounce timer fires: later() runs processPendingConnections
TimerFire ==
    /\ timers > 0
    /\ LET t == later([timeout |-> timeout, timers |-> timers])
       IN  timeout' = t.timeout /\ timers' = t.timers
    /\ \E r \in {processPendingConnections(G, nodes)} :
           /\ lines' = r.g.lines
           /\ connections' = r.g.connections
           /\ pendingConnections' = r.g.pending
           /\ lastOp' = Op("drain", "", NoId, NoParams, "", r.count, <<>>)
    /\ UNCHANGED <<nodes, pos, draggable, isWiring, currentWire, startPort,
                   readyState, nextConn, inbound, peers, chat>>

\* outputPort 'mousedown' on the output port of component group n
OutputMouseDown(n) ==
    /\ n \in nodes
    /\ Cardinality(Drafts(lines)) < MaxDrafts
    /\ LET wire == NewLine(lines, connections, NoId)
           startPos == getAbsolutePosition(pos, Port(n, "output"))
       IN  /\ isWiring' = TRUE
           /\ startPort' = Port(n, "output")
           /\ draggable' = [draggable EXCEPT ![n] = FALSE]
           /\ currentWire' = wire
           /\ lines' = (wire :> [id |-> NoId, points |-> <<startPos, startPos>>])
                        @@ lines
    /\ lastOp' = Op("mousedown", n, NoId, NoParams, "", 0, <<>>)
    /\ UNCHANGED <<nodes, pos, connections, pendingConnections, readyState,
                   timeout, timers, nextConn, inbound, peers, chat>>

\* mainStage 'mouseup' with a target that is not an input port
StageMouseUp(name) ==
    /\ LET r == stageMouseUp(W, name)
       IN  /\ isWiring' = r.w.isWiring
           /\ currentWire' = r.w.currentWire
           /\ startPort' = r.w.startPort
           /\ lines' = r.w.lines
           /\ draggable' = r.w.draggable
           /\ lastOp' = Op("stage_mouseup", name, NoId, NoParams, r.res, 0, <<>>)
    /\ UNCHANGED <<nodes, pos, connections, pendingConnections, readyState,
                   timeout, timers, nextConn, inbound, peers, chat>>

\* (mutant) on commit the dashed draft line is kept and becomes the line of
\* the new connection
InputMouseUp_Promotes(n) ==
    /\ n \in nodes
    /\ LET inputPort == Port(n, "input")
           commit == canCommit(W, n)
           lines1 == IF currentWire # NoLine THEN destroy(lines, currentWire)
                     ELSE lines
           connectionId == nextConn + 1
           made == createWire(G, connectionId, startPort, inputPort)
           c == [g |-> [G EXCEPT
                          !.lines = [lines EXCEPT ![currentWire] =
                                        made.g.lines[made.wire]],
                          !.connections =
                              [made.g.connections EXCEPT
                                  ![connectionId].line = currentWire]],
                 wire |-> currentWire]
           message == CreateMessage(connectionId, startPort.node, startPort.name,
                                    n, inputPort.name)
           out == IF commit THEN send(readyState, message) ELSE <<>>
           w1 == [isWiring |-> FALSE, currentWire |-> NoLine, startPort |-> NoPort,
                  lines |-> IF commit THEN c.g.lines ELSE lines1,
                  draggable |-> IF startPort # NoPort
                                THEN [draggable EXCEPT ![startPort.node] = TRUE]
                                ELSE draggable]
           r == stageMouseUp(w1, inputPort.name)
       IN  /\ commit => nextConn < MaxConnIds
           /\ isWiring' = r.w.isWiring
           /\ currentWire' = r.w.currentWire
           /\ startPort' = r.w.startPort
           /\ lines' = r.w.lines
           /\ draggable' = r.w.draggable
           /\ connections' = IF commit THEN c.g.connections ELSE connections
           /\ nextConn' = IF commit THEN connectionId ELSE nextConn
           /\ lastOp' = Op("input_mouseup", n,
                           IF commit THEN connectionId ELSE NoId, NoParams,
                           IF commit THEN "commit"
                           ELSE IF isWiring THEN "reject" ELSE "idle",
                           0, out)
    /\ UNCHANGED <<nodes, pos, pendingConnections, readyState, timeout, timers, inbound, peers, chat>>

\* inputPort 'mouseup' on the input port of component group n, followed by
\* the stage 'mouseup' listener the event bubbles to
InputMouseUp(n) ==
    /\ n \in nodes
    /\ LET inputPort == Port(n, "input")
           commit == canCommit(W, n)
           lines1 == IF currentWire # NoLine THEN destroy(lines, currentWire)
                     ELSE lines
           connectionId == nextConn + 1
           c == createWire([G EXCEPT !.lines = lines1], connectionId,
                           startPort, inputPort)
           message == CreateMessage(connectionId, startPort.node, startPort.name,
                                    n, inputPort.name)
           out == IF commit THEN send(readyState, message) ELSE <<>>
           w1 == [isWiring |-> FALSE, currentWire |-> NoLine, startPort |-> NoPort,
                  lines |-> IF commit THEN c.g.lines ELSE lines1,
                  draggable |-> IF startPort # NoPort
                                THEN [draggable EXCEPT ![startPort.node] = TRUE]
                                ELSE draggable]
           r == stageMouseUp(w1, inputPort.name)
       IN  /\ commit => nextConn < MaxConnIds
           /\ isWiring' = r.w.isWiring
           /\ currentWire' = r.w.currentWire
           /\ startPort' = r.w.startPort
           /\ lines' = r.w.lines
           /\ draggable' = r.w.draggable
           /\ connections' = IF commit THEN c.g.connections ELSE connections
           /\ nextConn' = IF commit THEN connectionId ELSE nextConn
           /\ lastOp' = Op("input_mouseup", n,
                           IF commit THEN connectionId ELSE NoId, NoParams,
                           IF commit THEN "commit"
                           ELSE IF isWiring THEN "reject" ELSE "idle",
                           0, out)
    /\ UNCHANGED <<nodes, pos, pendingConnections, readyState, timeout, timers, inbound, peers, chat>>

\* mainStage 'mousemove' with the pointer at place p
MouseMove(p) ==
    /\ lines' = mousemove(W, PointerAt(p))
    /\ lastOp' = Op("mousemove", "", NoId, NoParams, "", 0, <<>>)
    /\ UNCHANGED <<nodes, pos, draggable, connections, pendingConnections,
                   isWiring, currentWire, startPort, readyState, timeout, timers,
                   nextConn, inbound, peers, chat>>

\* createWire({id, fromPort, toPort}) called for a connection the Map
\* already holds with its line on the stage, with the ports of that entry.
\* No handler of the client makes this call (a gesture mints a new id and
\* renderLoadedConnection returns before createWire when the line is on the
\* stage); it is the store's create operation applied a second time.
CreateWireAgain(id) ==
    /\ id \in DOMAIN connections
    /\ Cardinality(LinesWithId(lines, id)) = 1
    /\ LET c == createWire(G, id, connections[id].from, connections[id].to)
       IN  /\ lines' = c.g.lines
           /\ connections' = c.g.connections
           /\ lastOp' = Op("createWire", "", id, NoParams,
                           IF c.wire = NoLine THEN "null" ELSE "wire", 0, <<>>)
    /\ UNCHANGED <<nodes, pos, draggable, pendingConnections, isWiring, currentWire,
                   startPort, readyState, timeout, timers, nextConn, inbound, peers, chat>>

\* the pointer leaves the canvas and the button is released outside the
\* stage container, or the window loses focus: the stage has listeners for
\* 'add', 'mousemove' and 'mouseup' only and nothing listens on window or
\* document, so the release reaches no listener and no handler runs
ReleaseOutside ==
    /\ lastOp' = Op("release_outside", "", NoId, NoParams, "", 0, <<>>)
    /\ UNCHANGED <<nodes, pos, draggable, lines, connections, pendingConnections,
                   isWiring, currentWire, startPort, readyState, timeout, timers,
                   nextConn, inbound, peers, chat>>

\* wire 'contextmenu' on the line h created by createWire with id, confirmed
ContextMenuDelete(h) ==
    /\ h \in DOMAIN lines
    /\ lines[h].id # NoId
    /\ LET id == lines[h].id
       IN  /\ connections' = [i \in DOMAIN connections \ {id} |-> connections[i]]
           /\ lines' = destroy(lines, h)
           /\ lastOp' = Op("delete", "", id, NoParams, "", 0,
                           IF readyState = "OPEN" THEN <<DeleteMessage(id)>>
                           ELSE <<>>)
    /\ UNCHANGED <<nodes, pos, draggable, pendingConnections, isWiring, currentWire,
                   startPort, readyState, timeout, timers, nextConn, inbound, peers, chat>>

\* (mutant) a load whose components are not on the stage is dropped
Load_NoQueue(params) ==
    /\ readyState = "OPEN"
    /\ inbound < MaxInbound
    /\ inbound' = inbound + 1
    /\ LET r == IF /\ params.sourceComponentId \in nodes
                   /\ params.targetComponentId \in nodes
                THEN renderLoadedConnection(G, nodes, params)
                ELSE [g |-> G, ok |-> FALSE, path |-> "deferred"]
       IN  /\ lines' = r.g.lines
           /\ connections' = r.g.connections
           /\ pendingConnections' = r.g.pending
           /\ lastOp' = Op("load", "", params.connectionId, params, r.path, 0, <<>>)
    /\ nextConn' = Seen(params.connectionId)
    /\ UNCHANGED <<nodes, pos, draggable, isWiring, currentWire, startPort,
                   readyState, timeout, timers, peers, chat>>

\* socket.onmessage with method v1.connection.load
Load(params) ==
    /\ readyState = "OPEN"
    /\ inbound < MaxInbound
    /\ inbound' = inbound + 1
    /\ LET r == renderLoadedConnection(G, nodes, params)
       IN  /\ lines' = r.g.lines
           /\ connections' = r.g.connections
           /\ pendingConnections' = r.g.pending
           /\ lastOp' = Op("load", "", params.connectionId, params, r.path, 0, <<>>)
    /\ nextConn' = Seen(params.connectionId)
    /\ UNCHANGED <<nodes, pos, draggable, isWiring, currentWire, startPort,
                   readyState, timeout, timers, peers, chat>>

\* socket.onmessage with method v1.connection.created
Created(params) ==
    /\ readyState = "OPEN"
    /\ inbound < MaxInbound
    /\ inbound' = inbound + 1
    /\ LET r == handleCreated(G, nodes, params)
       IN  /\ lines' = r.g.lines
           /\ connections' = r.g.connections
           /\ pendingConnections' = r.g.pending
           /\ lastOp' = Op("created", "", params.connectionId, params, r.path, 0, <<>>)
    /\ nextConn' = Seen(params.connectionId)
    /\ UNCHANGED <<nodes, pos, draggable, isWiring, currentWire, startPort,
                   readyState, timeout, timers, peers, chat>>

\* socket.onmessage with method v1.connection.removed
Removed(id) ==
    /\ readyState = "OPEN"
    /\ inbound < MaxInbound
    /\ inbound' = inbound + 1
    /\ LET r == removeConnection(G, id)
       IN  /\ lines' = r.g.lines
           /\ connections' = r.g.connections
           /\ pendingConnections' = r.g.pending
           /\ lastOp' = Op("removed", "", id, NoParams,
                           IF r.found THEN "removed" ELSE "notfound", 0, <<>>)
    /\ nextConn' = Seen(id)
    /\ UNCHANGED <<nodes, pos, draggable, isWiring, currentWire, startPort,
                   readyState, timeout, timers, peers, chat>>

\* the methods of the branches of socket.onmessage
Methods ==
    {"v1.connection.load", "component.emitOutput", "v1.connection.created",
     "v1.connection.removed"}

\* methods that no branch names: the two this client sends, and one of a
\* later protocol version
OtherMethods == {"v1.connection.create", "v1.connection.delete", "v2.connection.load"}

\* descriptors that lack a required field: the target component id, the
\* source port name
IncompleteDescriptors(ids) ==
    {Descriptor(id, "n1", "output", "", "input") : id \in ids}
    \cup {Descriptor(id, "n1", "", "n2", "input") : id \in ids}

\* the payloads besides the well-formed load, created and removed messages:
\* data that is not JSON, a message of each method without params, a load
\* and a created whose params lack a field, a component.emitOutput, and
\* messages of methods no branch names (with a full descriptor as params)
OtherPayloads(ids) ==
    {Payload(FALSE, "", NoParams)}
    \cup {Payload(TRUE, m, NoParams) : m \in Methods}
    \cup {Payload(TRUE, m, d) :
            m \in {"v1.connection.load", "v1.connection.created"},
            d \in IncompleteDescriptors(ids)}
    \cup {Payload(TRUE, "component.emitOutput", Descriptor(NoId, "n1", "output", "", ""))}
    \cup {Payload(TRUE, m, Descriptor(id, "n1", "output", "n2", "input")) :
            m \in OtherMethods, id \in ids}

\* socket.onmessage with any other payload
Message(data) ==
    /\ readyState = "OPEN"
    /\ inbound < MaxInbound
    /\ inbound' = inbound + 1
    /\ LET r == onmessage(G, nodes, data)
       IN  /\ lines' = r.g.lines
           /\ connections' = r.g.connections
           /\ pendingConnections' = r.g.pending
           /\ lastOp' = Op("message", data.method, data.params.connectionId,
                           data.params, IF data.json THEN r.res ELSE "garbled",
                           0, <<>>)
    /\ nextConn' = Seen(data.params.connectionId)
    /\ UNCHANGED <<nodes, pos, draggable, isWiring, currentWire, startPort,
                   readyState, timeout, timers, peers, chat>>

\* the variables of the single client
clientVars ==
    <<nodes, pos, draggable, lines, connections, pendingConnections, isWiring,
      currentWire, startPort, readyState, timeout, timers, nextConn, inbound>>

\* client c completes a wire drawn from the output port of n to the input
\* port of m: the commit branch of the inputPort 'mouseup' listener
PeerCommit(c, n, m) ==
    /\ canCommit([isWiring |-> TRUE, startPort |-> Port(n, "output")], m)
    /\ peers.minted < MaxPeerIds
    /\ LET connectionId == peers.minted + 1
           r == createWire(peers.store[c], connectionId,
                           Port(n, "output"), Port(m, "input"))
           out == send("OPEN", CreateMessage(connectionId, n, "output", m, "input"))
       IN  /\ peers' = [peers EXCEPT !.store[c] = [r.g EXCEPT !.draws = 0],
                                     !.up[c] = @ \o out,
                                     !.minted = connectionId]
           /\ lastOp' = Op("peer_commit", c, connectionId, NoParams, "commit", 0, out)
    /\ UNCHANGED <<clientVars, chat>>

\* client c deletes the connection id from the context menu of its wire
PeerDelete(c, id) ==
    /\ id \in DOMAIN peers.store[c].connections
    /\ peers.deletes < MaxPeerDeletes
    /\ LET g == peers.store[c]
           out == send("OPEN", DeleteMessage(id))
       IN  /\ peers' = [peers EXCEPT
                          !.store[c] =
                              [g EXCEPT
                                 !.connections =
                                     [i \in DOMAIN g.connections \ {id}
                                        |-> g.connections[i]],
                                 !.lines = destroy(g.lines, g.connections[id].line)],
                          !.up[c] = @ \o out,
                          !.deletes = @ + 1]
           /\ lastOp' = Op("peer_delete", c, id, NoParams, "", 0, out)
    /\ UNCHANGED <<clientVars, chat>>

\* the relay accepts the oldest message client c has sent and reflects it to
\* every client, c included
PeerRelay(c) ==
    /\ peers.up[c] # <<>>
    /\ LET m == Head(peers.up[c])
       IN  /\ peers' = [peers EXCEPT
                          !.up[c] = Tail(@),
                          !.down = [d \in Clients
                                      |-> Append(peers.down[d], RelayForm(m))]]
           /\ lastOp' = Op("peer_relay", c, m.params.connectionId, NoParams,
                           "", 0, <<>>)
    /\ UNCHANGED <<clientVars, chat>>

\* socket.onmessage of client c with the i-th message the relay has sent it,
\* the oldest about its connection
PeerDeliver(c, i) ==
    /\ i \in 1..Len(peers.down[c])
    /\ OldestOfItsConnection(peers.down[c], i)
    /\ LET data == peers.down[c][i]
           r == onmessage(peers.store[c], NodeIds, data)
       IN  /\ peers' = [peers EXCEPT
                          !.store[c] = [r.g EXCEPT !.draws = 0],
                          !.down[c] = Without(@, i)]
           /\ lastOp' = Op("peer_deliver", c, data.params.connectionId,
                           NoParams, r.res, 0, <<>>)
    /\ UNCHANGED <<clientVars, chat>>

\* ws.onopen of the chat component
ChatOpen ==
    /\ chat.readyState = "CONNECTING"
    /\ chat' = [chat EXCEPT !.readyState = "OPEN", !.last = "open"]
    /\ UNCHANGED <<clientVars, lastOp, peers>>

\* handleSubmit up to its await: the submit button is enabled only while
\* isLoading is false
ChatSubmit ==
    /\ ~chat.isLoading
    /\ IF chat.readyState # "OPEN"
       THEN chat' = [chat EXCEPT !.isLoading = FALSE, !.last = "submit_unconnected"]
       ELSE /\ chat.messageIdCounter < MaxSubmits
            /\ LET messageId == chat.messageIdCounter + 1
               IN  chat' = [chat EXCEPT
                              !.isLoading = TRUE,
                              !.messageIdCounter = messageId,
                              !.pendingRequests = @ \cup {messageId},
                              !.timers = @ \cup {messageId},
                              !.unanswered = @ \cup {messageId},
                              !.last = "submit"]
    /\ UNCHANGED <<clientVars, lastOp, peers>>

\* ws.onmessage with the server's answer to request id, and the rest of
\* handleSubmit when the answer settles its Promise.race
ChatAnswer(id, kind) ==
    /\ chat.readyState = "OPEN"
    /\ id \in chat.unanswered
    /\ chat' = [chat EXCEPT
                  !.unanswered = @ \ {id},
                  !.pendingRequests = @ \ {id},
                  !.isLoading = IF id \in chat.pendingRequests
                                THEN afterRace(@, kind) ELSE @,
                  !.last = "answer"]
    /\ UNCHANGED <<clientVars, lastOp, peers>>

\* ws.onmessage with a component.emitOutput push for this component, with
\* or without a JSON-RPC id
ChatPush(hasId, outputName) ==
    /\ chat.readyState = "OPEN"
    /\ chat.pushes < MaxPushes
    /\ chat' = [chat EXCEPT
                  !.pushes = @ + 1,
                  !.isLoading = IF hasId /\ outputName # "other" THEN FALSE ELSE @,
                  !.last = IF hasId THEN "push" ELSE "push_dropped"]
    /\ UNCHANGED <<clientVars, lastOp, peers>>

\* the 30 s timer of request id fires, and the rest of handleSubmit when
\* that settles its Promise.race
ChatTimeout(id) ==
    /\ id \in chat.timers
    /\ chat' = [chat EXCEPT
                  !.timers = @ \ {id},
                  !.pendingRequests = @ \ {id},
                  !.isLoading = IF id \in chat.pendingRequests
                                THEN afterRace(@, "rejected") ELSE @,
                  !.last = "timeout"]
    /\ UNCHANGED <<clientVars, lastOp, peers>>

\* the connection fails: ws.onerror (the close event that follows finds no
\* pending request)
ChatError ==
    /\ chat.readyState # "CLOSED"
    /\ chat' = [chat EXCEPT !.readyState = "CLOSED", !.isLoading = FALSE,
                            !.pendingRequests = {}, !.last = "error"]
    /\ UNCHANGED <<clientVars, lastOp, peers>>

\* the connection is closed without an error: ws.onclose, and the rest of
\* handleSubmit for the requests it rejects
ChatClose ==
    /\ chat.readyState # "CLOSED"
    /\ chat' = [chat EXCEPT
                  !.readyState = "CLOSED",
                  !.pendingRequests = {},
                  !.isLoading = IF chat.pendingRequests # {}
                                THEN afterRace(@, "rejected") ELSE @,
                  !.last = "close"]
    /\ UNCHANGED <<clientVars, lastOp, peers>>

Next ==
    \/ SocketOpen
    \/ SocketClose
    \/ \E n \in NodeIds : AddNode(n)
    \/ TimerFire
    \/ \E n \in NodeIds : OutputMouseDown(n)
    \/ \E name \in OtherTargets : StageMouseUp(name)
    \/ \E n \in NodeIds : InputMouseUp(n)
    \/ \E h \in DOMAIN lines : ContextMenuDelete(h)
    \/ \E params \in Descriptors(InboundIds) : Load(params)
    \/ \E params \in Descriptors(InboundIds) : Created(params)
    \/ \E id \in InboundIds : Removed(id)

Spec == Init /\ [][Next]_vars

FairSpec == Spec /\ WF_vars(TimerFire)

\* The client with its component groups being dragged about.  The 'dragmove'
\* listener writes only the points of lines, which no other handler reads,
\* so Spec leaves the groups where they were dropped.
NextMove ==
    \/ Next
    \/ \E n \in NodeIds, p \in Places : DragMove(n, p)

MoveSpec == Init /\ [][NextMove]_vars

\* The client receiving, besides the well-formed messages of Spec, data that
\* does not decode, messages that lack fields and messages of other methods.
NextProtocol ==
    \/ Next
    \/ \E data \in OtherPayloads(InboundIds) : Message(data)

ProtocolSpec == Init /\ [][NextProtocol]_vars

\* The client with the pointer moving over the canvas and also released
\* outside the canvas.
NextPointer ==
    \/ Next
    \/ ReleaseOutside
    \/ \E p \in Places : MouseMove(p)

PointerSpec == Init /\ [][NextPointer]_vars

\* The store's create operation applied to ids the store already holds, in
\* the states the client reaches.
NextStore ==
    \/ Next
    \/ \E id \in ConnIds : CreateWireAgain(id)

StoreSpec == Init /\ [][NextStore]_vars

\* two clients and the relay
NextPeers ==
    \/ \E c \in Clients, n, m \in NodeIds : PeerCommit(c, n, m)
    \/ \E c \in Clients, id \in PeerIds : PeerDelete(c, id)
    \/ \E c \in Clients : PeerRelay(c)
    \/ \E c \in Clients, i \in 1..(MaxPeerIds + MaxPeerDeletes) : PeerDeliver(c, i)

PeersSpec == Init /\ [][NextPeers]_vars

\* the chat component
NextChat ==
    \/ ChatOpen
    \/ ChatSubmit
    \/ \E id \in 1..MaxSubmits, kind \in AnswerKinds : ChatAnswer(id, kind)
    \/ \E hasId \in BOOLEAN, outputName \in OutputNames : ChatPush(hasId, outputName)
    \/ \E id \in 1..MaxSubmits : ChatTimeout(id)
    \/ ChatError
    \/ ChatClose

ChatSpec == Init /\ [][NextChat]_vars

\* ============================================================== properties
AllDescriptors == Descriptors(ConnIds)

SourcePort(d) == Port(d.sourceComponentId, d.sourcePortName)
TargetPort(d) == Port(d.targetComponentId, d.targetPortName)

\* both endpoint nodes of d are on the stage and have the ports d names
Resolvable(d, ns) ==
    /\ d.sourceComponentId \in ns
    /\ d.targetComponentId \in ns
    /\ d.sourcePortName \in PortNames
    /\ d.targetPortName \in PortNames

\* the Map holds a connection with d's id and d's endpoints
StoredAs(conns, d) ==
    /\ d.connectionId \in DOMAIN conns
    /\ conns[d.connectionId].from = SourcePort(d)
    /\ conns[d.connectionId].to = TargetPort(d)

InQueue(q, d) == \E i \in 1..Len(q) : q[i] = d

QueuedWithId(q, id) == {i \in 1..Len(q) : q[i].connectionId = id}

\* exactly one Map entry and exactly one line on the stage for id, the entry
\* holding that line
ExactlyOne(conns, ls, id) ==
    /\ id \in DOMAIN conns
    /\ Cardinality(LinesWithId(ls, id)) = 1
    /\ conns[id].line \in LinesWithId(ls, id)

\* the step leaves the Map entry and the lines of id as they were
SameForId(id) ==
    /\ (id \in DOMAIN connections') = (id \in DOMAIN connections)
    /\ id \in DOMAIN connections => connections'[id] = connections[id]
    /\ LinesWithId(lines', id) = LinesWithId(lines, id)

\* d has been through create-or-resolve before this state: it is stored with
\* its endpoints (by a gesture of this client or by an earlier message), or
\* it sits in the queue
AppliedBefore(d) ==
    StoredAs(connections, d) \/ InQueue(pendingConnections, d)

\* the descriptors this step applies create-or-resolve to: the one an
\* inbound load or create carries, or the queued ones a drain retries
AppliedNow ==
    IF lastOp'.op \in {"load", "created"} THEN {lastOp'.params}
    ELSE IF lastOp'.op = "drain"
         THEN {pendingConnections[i] : i \in 1..Len(pendingConnections)}
         ELSE {}

\* C1 as stated: applying create-or-resolve to a descriptor a second time
\* leaves exactly one Connection Store entry and exactly one visual edge for
\* its id.
C1_AsStated ==
    [][\A d \in AppliedNow :
          AppliedBefore(d)
              => ExactlyOne(connections', lines', d.connectionId)]_vars

\* C1 amended: a second application of create-or-resolve to the same
\* descriptor leaves exactly one store entry and exactly one visual edge for
\* its id when both endpoint nodes and both named ports are on the canvas;
\* when one is missing it creates nothing for that id (its store entry and
\* its edges are as before) and the queue holds exactly one descriptor with
\* that id.  Never more than one edge with the id is on the canvas.
C1_IdempotentCreate ==
    [][\A d \in AppliedNow :
          AppliedBefore(d)
              => /\ Cardinality(LinesWithId(lines', d.connectionId)) <= 1
                 /\ Resolvable(d, nodes)
                      => ExactlyOne(connections', lines', d.connectionId)
                 /\ ~Resolvable(d, nodes)
                      => /\ SameForId(d.connectionId)
                         /\ Cardinality(QueuedWithId(pendingConnections',
                                                     d.connectionId)) = 1]_vars

\* a load whose descriptor was already stored with the same endpoints found
\* the edge on the stage and left one entry and one edge
C1_Witness ==
    /\ lastOp.op = "load"
    /\ lastOp.res = "existing"
    /\ StoredAs(connections, lastOp.params)
    /\ ExactlyOne(connections, lines, lastOp.id)

\* ------------------------------------------------------------------- C2
Idle(w, cw, sp) == ~w /\ cw = NoLine /\ sp = NoPort

\* this step is a release on the input port of the node the drag started on
SelfLoopRelease ==
    /\ lastOp'.op = "input_mouseup"
    /\ isWiring
    /\ startPort # NoPort
    /\ startPort.name = "output"
    /\ startPort.node = lastOp'.arg

\* C2: a drag pressed on an output port and released on the input port of
\* the same node adds no entry to the Connection Store, sends no outbound
\* message, adds no Pending Queue entry, and the session returns to Idle.
C2_NoSelfLoop ==
    [][SelfLoopRelease
          => /\ connections' = connections
             /\ lastOp'.out = <<>>
             /\ pendingConnections' = pendingConnections
             /\ Idle(isWiring', currentWire', startPort')]_vars

\* a drag was released on its own node's input port and was rejected
C2_Witness ==
    /\ lastOp.op = "input_mouseup"
    /\ lastOp.res = "reject"
    /\ lastOp.out = <<>>
    /\ Idle(isWiring, currentWire, startPort)

\* ------------------------------------------------------------------- C3
\* C3: a descriptor that is in the Pending Queue with both endpoint nodes
\* and both named ports present when a drain pass runs is, after that pass,
\* no longer in the queue, and the Connection Store holds exactly one
\* Connection with its id, with exactly one visual edge.
C3_DrainResolves ==
    [][lastOp'.op = "drain"
          => \A i \in 1..Len(pendingConnections) :
                Resolvable(pendingConnections[i], nodes)
                  => /\ ~IsQueued(pendingConnections',
                                  pendingConnections[i].connectionId)
                     /\ ExactlyOne(connections', lines',
                                   pendingConnections[i].connectionId)]_vars

\* a drain pass rendered a queued descriptor: the queue is empty and the
\* store holds a connection with its edge
C3_Witness ==
    /\ lastOp.op = "drain"
    /\ lastOp.count >= 1
    /\ pendingConnections = <<>>
    /\ \E id \in DOMAIN connections : ExactlyOne(connections, lines, id)

\* ------------------------------------------------------------------- C4
\* this step handles v1.connection.removed for id, or a confirmed
\* contextmenu delete of the wire with that id
RemovalOf(id) ==
    /\ lastOp'.op \in {"removed", "delete"}
    /\ lastOp'.id = id

\* C4: for any id X in the Connection Store, after an inbound
\* v1.connection.removed for X or a local delete of X, the store has no
\* entry X and no visual edge with id X is on the canvas.
C4_DeletionSymmetry ==
    [][\A id \in DOMAIN connections :
          RemovalOf(id)
              => /\ id \notin DOMAIN connections'
                 /\ LinesWithId(lines', id) = {}]_vars

\* a v1.connection.removed for a stored id was handled: entry and edge gone
C4_Witness ==
    /\ lastOp.op = "removed"
    /\ lastOp.res = "removed"
    /\ lastOp.id \notin DOMAIN connections
    /\ LinesWithId(lines, lastOp.id) = {}

\* ------------------------------------------------------------------- C5
\* C5: v1.connection.removed for an id that is not in the Connection Store
\* raises no error and leaves the store, the Pending Queue, the canvas edges
\* and the WiringSession unchanged.
C5_RemoveUnknownIsNoOp ==
    [][(lastOp'.op = "removed" /\ lastOp'.id \notin DOMAIN connections)
          => /\ lastOp'.res = "notfound"
             /\ UNCHANGED <<connections, pendingConnections, lines,
                            isWiring, currentWire, startPort>>]_vars

\* a v1.connection.removed for an id the store did not have was handled
\* while a descriptor with that id was waiting in the queue
C5_Witness ==
    /\ lastOp.op = "removed"
    /\ lastOp.res = "notfound"
    /\ IsQueued(pendingConnections, lastOp.id)

\* ------------------------------------------------------------------- C6
\* this step is a release on the input port of a node other than the one the
\* drag started on
CommitRelease ==
    /\ lastOp'.op = "input_mouseup"
    /\ isWiring
    /\ startPort # NoPort
    /\ startPort.name = "output"
    /\ startPort.node # lastOp'.arg

\* id was never seen by this client before the step: it is not stored, not
\* queued, on no line, and was carried by no earlier message or gesture
Fresh(id) ==
    /\ id > nextConn
    /\ id \notin DOMAIN connections
    /\ ~IsQueued(pendingConnections, id)
    /\ LinesWithId(lines, id) = {}

\* C6: a drag pressed on output port out of node n1 and released on input
\* port in of a different node n2 adds exactly one Connection, with a freshly
\* minted id and (sourceComponentId = n1, sourcePortName = out,
\* targetComponentId = n2, targetPortName = in), and, when the channel is
\* open, emits exactly one outbound v1.connection.create whose params carry
\* that id and those four fields.
C6_CommitCreatesAndSends ==
    [][CommitRelease
          => \E id \in ConnIds :
                /\ Fresh(id)
                /\ DOMAIN connections' = DOMAIN connections \cup {id}
                /\ \A i \in DOMAIN connections : connections'[i] = connections[i]
                /\ connections'[id].id = id
                /\ connections'[id].from = startPort
                /\ connections'[id].to = Port(lastOp'.arg, "input")
                /\ ExactlyOne(connections', lines', id)
                /\ readyState = "OPEN"
                     => lastOp'.out =
                          <<[method |-> "v1.connection.create",
                             params |->
                                [connectionId |-> id,
                                 sourceComponentId |-> startPort.node,
                                 sourcePortName |-> "output",
                                 targetComponentId |-> lastOp'.arg,
                                 targetPortName |-> "input"]]>>]_vars

\* a gesture committed with the channel open: one create message went out
\* for the connection that is now stored
C6_Witness ==
    /\ lastOp.op = "input_mouseup"
    /\ lastOp.res = "commit"
    /\ Len(lastOp.out) = 1
    /\ lastOp.out[1].method = "v1.connection.create"
    /\ StoredAs(connections, lastOp.out[1].params)

\* ------------------------------------------------------------------- C7
\* this step hands d to render-or-queue resolution from an inbound message
\* (a create whose id the Map already has is ignored before resolution)
ResolvesInbound(d) ==
    \/ lastOp'.op = "load" /\ lastOp'.params = d
    \/ /\ lastOp'.op = "created" /\ lastOp'.params = d
       /\ d.connectionId \notin DOMAIN connections

\* C7: render-or-queue resolution of a descriptor whose source node, target
\* node, named source port or named target port is absent puts the
\* descriptor in the Pending Queue (if its id is not already queued), creates
\* no visual edge, adds no Connection Store entry, and reports 'deferred'
\* without raising an error.
C7_UnresolvableIsDeferred ==
    [][\A d \in AppliedNow :
          (ResolvesInbound(d) /\ ~Resolvable(d, nodes))
              => /\ pendingConnections' =
                        IF IsQueued(pendingConnections, d.connectionId)
                        THEN pendingConnections
                        ELSE Append(pendingConnections, d)
                 /\ lines' = lines
                 /\ connections' = connections
                 /\ lastOp'.res = "deferred"]_vars

\* C7 for the drain: a queued descriptor that is still unresolvable when a
\* drain pass retries it stays queued as it was, and nothing is created for
\* its id.
C7_DrainKeepsUnresolvable ==
    [][lastOp'.op = "drain"
          => \A i \in 1..Len(pendingConnections) :
                ~Resolvable(pendingConnections[i], nodes)
                  => /\ InQueue(pendingConnections', pendingConnections[i])
                     /\ SameForId(pendingConnections[i].connectionId)]_vars

\* an inbound descriptor naming a port that no node has was deferred: it is
\* queued although both of its nodes are on the stage
C7_Witness ==
    /\ lastOp.op \in {"load", "created"}
    /\ lastOp.res = "deferred"
    /\ InQueue(pendingConnections, lastOp.params)
    /\ lastOp.params.sourceComponentId \in nodes
    /\ lastOp.params.targetComponentId \in nodes
    /\ ~Resolvable(lastOp.params, nodes)

\* ------------------------------------------------------------------- C8
\* descriptor d sits in the Pending Queue and every node and port it names
\* is now on the stage: the node it was waiting for has been added
DeferredNowResolvable(d) ==
    /\ InQueue(pendingConnections, d)
    /\ Resolvable(d, nodes)

\* the queue no longer holds id and exactly one visual edge carries it
DrainedAndDrawn(id) ==
    /\ ~IsQueued(pendingConnections, id)
    /\ Cardinality(LinesWithId(lines, id)) = 1

\* C8: after a connection has been deferred because a node was missing, once
\* the missing node is added to the canvas and node-added events then stop, a
\* debounced drain eventually runs, after which the Pending Queue no longer
\* holds that connectionId and exactly one visual edge with that
\* connectionId exists.
C8_DeferredEventuallyDrawn ==
    \A id \in ConnIds :
        (\E d \in Descriptors({id}) : DeferredNowResolvable(d))
            ~> DrainedAndDrawn(id)

\* a deferred descriptor can only be resolvable while the debounce timer is
\* pending, which is what makes the drain certain to come
C8_ResolvableQueuedHasTimer ==
    \A d \in AllDescriptors : DeferredNowResolvable(d) => timeout

\* the debounce timer has fired after the last node was added and the drain
\* drew a connection that had been waiting in the queue
C8_Witness ==
    /\ lastOp.op = "drain"
    /\ lastOp.count >= 1
    /\ ~timeout
    /\ nodes = NodeIds
    /\ \E id \in ConnIds : DrainedAndDrawn(id) /\ id \in DOMAIN connections

\* ------------------------------------------------------------------- C9
\* C9: an inbound create broadcast whose connectionId is already in the local
\* Connection Store is ignored: the store entry, the canvas edges and the
\* Pending Queue are unchanged, so exactly one Connection with that id
\* persists however many times the broadcast is delivered.
C9_SelfEchoIgnored ==
    [][(/\ lastOp'.op = "created"
        /\ lastOp'.id \in DOMAIN connections)
          => /\ lastOp'.res = "ignored"
             /\ UNCHANGED <<connections, lines, pendingConnections>>
             /\ ExactlyOne(connections', lines',
                           lastOp'.id)]_vars

\* the echo of a connection this client committed by gesture was ignored
C9_Witness ==
    /\ lastOp.op = "created"
    /\ lastOp.res = "ignored"
    /\ StoredAs(connections, lastOp.params)
    /\ ExactlyOne(connections, lines, lastOp.id)

\* ------------------------------------------------------------------ C10
\* this step is a release over the stage or over a shape that is not an
\* input port, while a drag is on
OffTargetRelease ==
    /\ lastOp'.op = "stage_mouseup"
    /\ isWiring
    /\ startPort # NoPort
    /\ currentWire # NoLine

\* C10: a drag started on an output port and released over empty canvas or
\* over any target that is not an input port destroys the draft edge, adds no
\* Connection, sends no outbound message, re-enables the origin node's
\* drag-move and returns the session to Idle.
C10_CancelOnOffTargetRelease ==
    [][OffTargetRelease
          => /\ currentWire \notin DOMAIN lines'
             /\ \A h \in DOMAIN lines' : h \in DOMAIN lines
             /\ connections' = connections
             /\ pendingConnections' = pendingConnections
             /\ lastOp'.out = <<>>
             /\ draggable'[startPort.node]
             /\ Idle(isWiring', currentWire', startPort')]_vars

\* a drag was cancelled by a release off target while a committed connection
\* was in the store
C10_Witness ==
    /\ lastOp.op = "stage_mouseup"
    /\ lastOp.res = "cancel"
    /\ Idle(isWiring, currentWire, startPort)
    /\ connections # <<>>

\* ------------------------------------------------------------------ C11
\* the two endpoints of the visual edge of stored connection id, in ls
SourceEnd(ls, id) == ls[connections[id].line].points[1]
TargetEnd(ls, id) == ls[connections[id].line].points[2]

\* C11: on each move of node N, every stored Connection whose source port
\* belongs to N has its edge's source endpoint set to that port's new
\* absolute position, every stored Connection whose target port belongs to N
\* has its edge's target endpoint set likewise, and the endpoints of
\* connections with no port on N (and the far endpoint of a connection with
\* one port on N) are unchanged.
C11_MoveUpdatesEndpoints ==
    [][lastOp'.op = "dragmove"
          => \A id \in DOMAIN connections :
                LET c == connections[id]
                    N == lastOp'.arg
                IN  c.line \in DOMAIN lines
                      => /\ c.line \in DOMAIN lines'
                         /\ SourceEnd(lines', id) =
                               IF c.from.node = N
                               THEN getAbsolutePosition(pos', c.from)
                               ELSE SourceEnd(lines, id)
                         /\ TargetEnd(lines', id) =
                               IF c.to.node = N
                               THEN getAbsolutePosition(pos', c.to)
                               ELSE TargetEnd(lines, id)]_vars

\* a node was dragged away from where it was dropped while a connection from
\* its output port to the other node was stored: the edge starts at the new
\* place of the port and still ends where the other node is
C11_Witness ==
    /\ lastOp.op = "dragmove"
    /\ pos[lastOp.arg] \notin DropPlaces
    /\ \E id \in DOMAIN connections :
          LET c == connections[id]
          IN  /\ c.from = Port(lastOp.arg, "output")
              /\ c.to.node # lastOp.arg
              /\ c.line \in DOMAIN lines
              /\ SourceEnd(lines, id) = getAbsolutePosition(pos, c.from)
              /\ TargetEnd(lines, id) = getAbsolutePosition(pos, c.to)

\* ------------------------------------------------------------------ C12
\* C12: in every reachable state, including connections created from inbound
\* create or load messages and from Pending Queue drains and not only from
\* gestures, no stored Connection has its source port and its target port on
\* the same node.
C12_NoStoredSelfLoop ==
    \A id \in DOMAIN connections :
        connections[id].from.node # connections[id].to.node

\* ------------------------------------------------------------------ C13
\* C13: in every reachable state, every stored Connection's source port is an
\* output port and its target port is an input port, whichever path
\* (gesture, inbound create, load, drain) created it.
C13_SourceIsOutputTargetIsInput ==
    \A id \in DOMAIN connections :
        /\ connections[id].from.name = "output"
        /\ connections[id].to.name = "input"

\* ------------------------------------------------------------------ C14
\* C14: when a gesture commits while the channel is not open, the Connection
\* Store entry and the visual edge are still created, no outbound message is
\* sent, and the session returns to Idle with the origin node's drag-move
\* re-enabled.
C14_CommitWhileNotOpen ==
    [][(CommitRelease /\ readyState # "OPEN")
          => /\ \E id \in ConnIds :
                  /\ Fresh(id)
                  /\ DOMAIN connections' = DOMAIN connections \cup {id}
                  /\ connections'[id].from = startPort
                  /\ connections'[id].to = Port(lastOp'.arg, "input")
                  /\ ExactlyOne(connections', lines', id)
             /\ lastOp'.out = <<>>
             /\ Idle(isWiring', currentWire', startPort')
             /\ draggable'[startPort.node]]_vars

\* a gesture committed with the socket still connecting or already closed:
\* the connection is stored and drawn and nothing was sent
C14_Witness ==
    /\ lastOp.op = "input_mouseup"
    /\ lastOp.res = "commit"
    /\ readyState # "OPEN"
    /\ lastOp.out = <<>>
    /\ lastOp.id \in DOMAIN connections
    /\ ExactlyOne(connections, lines, lastOp.id)
    /\ Idle(isWiring, currentWire, startPort)
    /\ draggable[connections[lastOp.id].from.node]

\* ------------------------------------------------------------------ C15
\* the store, the queue, the canvas and the wiring session are as before
NothingTouched ==
    UNCHANGED <<nodes, pos, draggable, lines, connections, pendingConnections,
                isWiring, currentWire, startPort, timeout, timers>>

\* C15: an inbound payload that fails JSON decoding is caught inside the
\* handler: the Connection Store, Pending Queue, canvas edges and
\* WiringSession are unchanged (and the handler, which the exception does
\* not leave, takes the next message).
C15_UndecodableIsCaught ==
    [][(lastOp'.op = "message" /\ lastOp'.res = "garbled")
          => NothingTouched]_vars

\* data that is not JSON arrived while a descriptor was waiting in the queue
\* and a drag was on, and both are still there
C15_Witness ==
    /\ lastOp.op = "message"
    /\ lastOp.res = "garbled"
    /\ pendingConnections # <<>>
    /\ isWiring
    /\ currentWire \in DOMAIN lines

\* ------------------------------------------------------------------ C16
\* d lacks a required field
Incomplete(d) ==
    \/ d.connectionId = NoId
    \/ d.sourceComponentId = ""
    \/ d.sourcePortName = ""
    \/ d.targetComponentId = ""
    \/ d.targetPortName = ""

\* C16: an inbound create, load or removed message that decodes but lacks a
\* required field (params, connectionId, a component id or a port name) is
\* rejected at the handler boundary: the Connection Store and the Pending
\* Queue are unchanged, so no descriptor with an undefined id or endpoint is
\* ever stored or queued.
C16_IncompleteIsRejected ==
    [][(/\ lastOp'.op = "message"
        /\ lastOp'.arg \in {"v1.connection.load", "v1.connection.created",
                            "v1.connection.removed"}
        /\ Incomplete(lastOp'.params))
          => /\ UNCHANGED <<connections, pendingConnections>>
             /\ \A i \in 1..Len(pendingConnections') :
                   ~Incomplete(pendingConnections'[i])]_vars

\* ------------------------------------------------------------------ C17
\* C17: an inbound message whose method name is not one the handler
\* recognizes causes no change to the Connection Store, Pending Queue, canvas
\* or WiringSession and raises no error.
C17_UnknownMethodIgnored ==
    [][(lastOp'.op = "message" /\ lastOp'.arg \in OtherMethods)
          => /\ NothingTouched
             /\ lastOp'.res = "unhandled"]_vars

\* a message of a later protocol version arrived while a descriptor was
\* waiting in the queue; it fell through every branch
C17_Witness ==
    /\ lastOp.op = "message"
    /\ lastOp.arg = "v2.connection.load"
    /\ lastOp.res = "unhandled"
    /\ pendingConnections # <<>>
    /\ lastOp.id \notin DOMAIN connections

\* ------------------------------------------------------------------ C18
\* connection id is stored with its visual edge on the canvas, or a
\* descriptor with id waits in the queue
StoredOrQueued(conns, ls, q, id) ==
    \/ id \in DOMAIN conns /\ conns[id].line \in DOMAIN ls
    \/ IsQueued(q, id)

CreatedStep ==
    \/ lastOp'.op = "created"
    \/ /\ lastOp'.op = "message"
       /\ lastOp'.arg = "v1.connection.created"
       /\ lastOp'.params # NoParams

C19_OneQueuedPerId ==
    \A i, j \in 1..Len(pendingConnections) :
        pendingConnections[i].connectionId = pendingConnections[j].connectionId
            => i = j

\* a second unresolved descriptor arrived for an id that was already queued
\* with other endpoints: the queue still holds the first one only
C19_Witness ==
    /\ lastOp.op \in {"load", "created"}
    /\ lastOp.res = "deferred"
    /\ Len(pendingConnections) = 1
    /\ pendingConnections[1].connectionId = lastOp.id
    /\ pendingConnections[1] # lastOp.params

\* ------------------------------------------------------------------ C20
\* A burst is a run of node-added events each of which comes while the timer
\* the previous one started is still pending (within the coalescing window).
\* Every node-added event leaves one timer pending and drains nothing
\* itself; a drain pass runs only when a timer is pending and leaves none,
\* and no other handler starts or stops the timer.
OneDrainPerBurst ==
    [][/\ lastOp'.op = "add"
            => /\ timeout'
               /\ UNCHANGED <<lines, connections, pendingConnections>>
       /\ lastOp'.op = "drain" => timeout /\ ~timeout'
       /\ lastOp'.op \notin {"add", "drain"} => timeout' = timeout]_vars

\* C20: any burst of node-added events in which each event follows the
\* previous one within the coalescing window triggers exactly one drain
\* pass, and that pass runs after the last event of the burst.
C20_BurstDrainsOnce ==
    /\ OneDrainPerBurst
    /\ timeout ~> (lastOp.op = "drain" /\ ~timeout)

\* the second node of a burst has just been added: the timer is pending and
\* a descriptor that both nodes now resolve is still waiting for the drain
C20_Witness ==
    /\ lastOp.op = "add"
    /\ timeout
    /\ nodes = NodeIds
    /\ \E i \in 1..Len(pendingConnections) :
          /\ Resolvable(pendingConnections[i], nodes)
          /\ pendingConnections[i].sourceComponentId
                # pendingConnections[i].targetComponentId

\* ------------------------------------------------- claims C21 .. C30
\* C21: at most one Dragging session and at most one draft edge exist at
\* any time: no step leaves more than one draft line on the layer, and a
\* press on an output port while a session is already Dragging is either
\* ignored (the gesture state and the lines stay as they were) or cancels
\* the first session, destroying its draft line and re-enabling drag-move
\* of its origin node unless that node is the origin of the new session.
C21_OneSessionOneDraft ==
    [][/\ Cardinality(Drafts(lines')) <= 1
       /\ (lastOp'.op = "mousedown" /\ isWiring)
            => \/ UNCHANGED <<isWiring, currentWire, startPort, lines, draggable>>
               \/ /\ currentWire \notin DOMAIN lines'
                  /\ startPort.node # lastOp'.arg => draggable'[startPort.node]]_vars

\* C22: a Dragging session is cancelled when the pointer is released outside
\* the canvas or the canvas loses focus: after that event the session is
\* Idle, its draft line is destroyed and its origin node can be dragged
\* again, so a session ends without a further release on the canvas.
C22_CancelOnReleaseOutside ==
    [][(lastOp'.op = "release_outside" /\ isWiring)
        => /\ Idle(isWiring', currentWire', startPort')
           /\ currentWire \notin DOMAIN lines'
           /\ draggable'[startPort.node]]_vars

\* ------------------------------------------------------------------ C23
\* what render-or-queue resolution left for id in store g: whether the Map
\* has the entry with exactly one line on the stage, and whether the queue
\* holds a descriptor with the id
Outcome(g, id) ==
    [stored |-> ExactlyOne(g.connections, g.lines, id),
     queued |-> QueuedWithId(g.pending, id) # {}]

C24_QueuedIsReplaced ==
    [][(/\ lastOp'.op \in {"load", "created"}
        /\ lastOp'.res = "deferred"
        /\ QueuedWithId(pendingConnections, lastOp'.id) # {})
        => \A i \in QueuedWithId(pendingConnections', lastOp'.id) :
              pendingConnections'[i] = lastOp'.params]_vars

\* ------------------------------------------------------------------ C25
\* C25: createWire called with an id that already has a store entry does
\* not construct a second line: the call returns without failing and
\* afterwards the Map has the entry and exactly one line with that id is on
\* the stage.
C25_CreateWireTwiceOneEdge ==
    [][lastOp'.op = "createWire"
        => /\ lastOp'.res = "wire"
           /\ ExactlyOne(connections', lines', lastOp'.id)]_vars

C27_OneRedrawPerPass ==
    [][lastOp'.op = "drain"
        => LET r == processPendingConnections(G, nodes)
           IN  /\ lastOp'.count = r.count
               /\ r.g.draws = IF r.count > 0 THEN 1 ELSE 0]_vars

\* what the pass does: it redraws once for every wire it creates and once
\* more at its end when it rendered a descriptor
DrainRedraws ==
    [][lastOp'.op = "drain"
        => LET r == processPendingConnections(G, nodes)
           IN  /\ r.count = 0 => r.g.draws = 0
               /\ r.count > 0 => r.g.draws \in {1, r.count + 1}]_vars

\* ------------------------------------------------------------------ C28
\* C28: at any time at most one drain is scheduled.  A node-added event
\* leaves exactly one timer pending whether or not one was pending before
\* (it replaces the schedule); a drain pass runs only off a pending timer
\* and leaves none; no other handler starts a timer.  So every drain pass
\* uses up the schedule of a node-added event that no earlier pass used,
\* and the passes never outnumber the node-added events.
C28_OneTimerPending ==
    [][/\ timers' <= 1
       /\ timeout' = (timers' = 1)
       /\ lastOp'.op = "add" => timers' = 1
       /\ lastOp'.op = "drain" => timers = 1 /\ timers' = 0
       /\ lastOp'.op \notin {"add", "drain"} => timers' = timers]_vars

\* both nodes are on the canvas, the last one just added, exactly one
\* timer is pending and a descriptor that n1 alone resolves is still queued
\* (when n1 was added first, its timer had not fired when n2 was added)
C28_Witness ==
    /\ lastOp.op = "add"
    /\ nodes = NodeIds
    /\ timers = 1
    /\ connections = <<>>
    /\ \E i \in 1..Len(pendingConnections) :
          /\ pendingConnections[i].sourceComponentId = "n1"
          /\ pendingConnections[i].targetComponentId = "n1"
          /\ Resolvable(pendingConnections[i], {"n1"})

\* ------------------------------------------------------------------ C29
\* C29: the draft line of a wiring session is never the line of a
\* Connection Store entry: no entry refers to a dashed draft line or to
\* currentWire, and a commit destroys the draft line and gives the new
\* connection a line that was not on the stage before.
C29_DraftIsNotAHandle ==
    [][/\ \A id \in DOMAIN connections' :
            /\ connections'[id].line \notin Drafts(lines')
            /\ connections'[id].line # currentWire'
       /\ (lastOp'.op = "input_mouseup" /\ lastOp'.res = "commit")
            => /\ currentWire \in Drafts(lines)
               /\ currentWire \notin DOMAIN lines'
               /\ connections'[lastOp'.id].line # currentWire
               /\ connections'[lastOp'.id].line \in DOMAIN lines' \ DOMAIN lines]_vars

\* a drag from n1 to n2 was committed: the session is Idle, no draft line is
\* left and the new connection has its own line on the stage
C29_Witness ==
    /\ lastOp.op = "input_mouseup"
    /\ lastOp.res = "commit"
    /\ Drafts(lines) = {}
    /\ currentWire = NoLine
    /\ lastOp.id \in DOMAIN connections
    /\ connections[lastOp.id].line \in LinesWithId(lines, lastOp.id)

\* ------------------------------------------------------------------ C30
\* C30: in every reachable state a node's drag-move is disabled only if the
\* node is the parent of the start port of the active wiring session; when
\* the session is Idle every node's drag-move is enabled.
C30_OnlyOriginIsLocked ==
    \A n \in nodes :
        ~draggable[n] => isWiring /\ startPort.node = n

\* ------------------------------------------------- claims C31 .. C40
\* C31: a pointer move while Dragging changes only the free end of the
\* draft line: the Map, the queue, the gesture globals and every other
\* line are as before, the draft's fixed end stays where it was, its free
\* end is at the pointer, and nothing is sent; this holds for every move of
\* a run, however many follow one another.  A pointer move while Idle
\* changes nothing.
C31_MoveTouchesDraftEndOnly ==
    [][lastOp'.op = "mousemove"
        => /\ UNCHANGED <<nodes, pos, draggable, connections, pendingConnections,
                          isWiring, currentWire, startPort, readyState>>
           /\ lastOp'.out = <<>>
           /\ DOMAIN lines' = DOMAIN lines
           /\ \A h \in DOMAIN lines :
                  /\ h # currentWire => lines'[h] = lines[h]
                  /\ lines'[h].id = lines[h].id
                  /\ lines'[h].points[1] = lines[h].points[1]
           /\ (isWiring /\ currentWire \in DOMAIN lines)
                => \E p \in Places : lines'[currentWire].points[2] = PointerAt(p)
           /\ ~isWiring => lines' = lines]_vars

\* during a drag from n1 the pointer moved: the draft line still starts at
\* the output port of n1 and ends at the pointer
C31_Witness ==
    /\ lastOp.op = "mousemove"
    /\ isWiring
    /\ startPort = Port("n1", "output")
    /\ currentWire \in Drafts(lines)
    /\ lines[currentWire].points[1] = getAbsolutePosition(pos, startPort)
    /\ lines[currentWire].points[2] = PointerAt(1)

\* ------------------------------------------------------------------ C32
\* C32: when an inbound descriptor whose components and ports are on the
\* canvas finds a line with its id on the stage but no Map entry for the
\* id, the handler adds a Map entry that refers to that line and has the
\* descriptor's ports, puts no new line on the stage and reports the
\* descriptor as handled.
C32_AdoptsExistingEdge ==
    [][(/\ lastOp'.op \in {"load", "created"}
        /\ Resolvable(lastOp'.params, nodes)
        /\ LinesWithId(lines, lastOp'.id) # {}
        /\ lastOp'.id \notin DOMAIN connections)
        => /\ lastOp'.res = "existing"
           /\ renderLoadedConnection(G, nodes, lastOp'.params).ok
           /\ lines' = lines
           /\ StoredAs(connections', lastOp'.params)
           /\ connections'[lastOp'.id].line \in LinesWithId(lines, lastOp'.id)
           /\ QueuedWithId(pendingConnections', lastOp'.id) = {}]_vars

\* a created message found the line of its id on the stage (an id the Map
\* holds is ignored before the stage is looked at, so the Map had no entry):
\* the Map now has the entry with that line
C32_Witness ==
    /\ lastOp.op = "created"
    /\ lastOp.res = "existing"
    /\ StoredAs(connections, lastOp.params)
    /\ connections[lastOp.id].line \in LinesWithId(lines, lastOp.id)

\* ------------------------------------------------------------------ C33
\* the queued descriptors that are no longer queued after the step
LeftQueue ==
    {pendingConnections[i] : i \in 1..Len(pendingConnections)}
        \ {pendingConnections'[i] : i \in 1..Len(pendingConnections')}

\* C33 as stated: a descriptor leaves the Pending Queue only when its own
\* resolution succeeds, that is in a step in which its components and
\* ports are on the canvas and after which it is stored with an edge.
C33_AsStated ==
    [][\A d \in LeftQueue :
          /\ Resolvable(d, nodes)
          /\ ExactlyOne(connections', lines', d.connectionId)]_vars

\* C33 amended: a queue entry leaves the Pending Queue only in a step that
\* resolves a descriptor with its connectionId: a drain pass that renders
\* the queued descriptor itself, or an inbound load or create with the same
\* id whose components and ports are on the canvas.  After the step the id
\* is stored with exactly one edge.  No other step (a timer that renders
\* nothing, a failed retry, a removal message, a delete, a gesture) takes
\* anything off the queue, and what stays queued stays as it was.
C33_LeavesOnlyWhenIdResolves ==
    [][/\ \A d \in LeftQueue :
            /\ ExactlyOne(connections', lines', d.connectionId)
            /\ \/ lastOp'.op = "drain" /\ Resolvable(d, nodes)
               \/ /\ lastOp'.op \in {"load", "created"}
                  /\ lastOp'.id = d.connectionId
                  /\ Resolvable(lastOp'.params, nodes)
       /\ \A i \in 1..Len(pendingConnections) :
            pendingConnections[i] \notin LeftQueue
                => InQueue(pendingConnections', pendingConnections[i])]_vars

\* a removal message came for an id that is queued and not stored: the
\* descriptor is still queued
C33_Witness ==
    /\ lastOp.op = "removed"
    /\ lastOp.res = "notfound"
    /\ QueuedWithId(pendingConnections, lastOp.id) # {}
    /\ lastOp.id \notin DOMAIN connections

\* ------------------------------------------------------------------ C34
\* the v1.connection.create messages the step sends
CreatesSent ==
    {lastOp'.out[i] : i \in {j \in 1..Len(lastOp'.out) :
                                lastOp'.out[j].method = "v1.connection.create"}}

\* C34: every outbound v1.connection.create is sent by the handler step that
\* added its connectionId to the Connection Store (the id is not stored
\* before the step and is stored, as the message describes it, after), the
\* step is the release on an input port and consumes no message from the
\* server, and no create is sent for an id that is not in the store when it
\* is sent.
C34_CreateSentWhereStored ==
    [][\A m \in CreatesSent :
          /\ lastOp'.op = "input_mouseup"
          /\ inbound' = inbound
          /\ m.params.connectionId \notin DOMAIN connections
          /\ m.params.connectionId \in DOMAIN connections'
          /\ StoredAs(connections', m.params)]_vars

\* a release on an input port has just sent a create for the id it stored,
\* before any message from the server was delivered to this client
C34_Witness ==
    /\ lastOp.op = "input_mouseup"
    /\ Len(lastOp.out) = 1
    /\ lastOp.out[1].method = "v1.connection.create"
    /\ lastOp.out[1].params.connectionId \in DOMAIN connections
    /\ inbound = 0

\* ------------------------------------------------------------------ C35
\* the ids of the permanent lines on the stage
PermanentIds == {lines[h].id : h \in DOMAIN lines} \ {NoId}

\* C35: in every reachable state an id has a Connection Store entry if and
\* only if exactly one permanent line with that id is on the canvas, and the
\* entry's line is that line.
C35_EntryIffOneEdge ==
    /\ \A id \in DOMAIN connections :
          /\ Cardinality(LinesWithId(lines, id)) = 1
          /\ connections[id].line \in LinesWithId(lines, id)
          /\ connections[id].id = id
    /\ \A id \in PermanentIds :
          /\ id \in DOMAIN connections
          /\ Cardinality(LinesWithId(lines, id)) = 1

\* a connection was stored with its line, then deleted from its context
\* menu: neither the entry nor a line with the id is left, while a draft
\* line of a gesture in progress is on the stage without an entry
C35_Witness ==
    /\ lastOp.op = "delete"
    /\ lastOp.id \notin DOMAIN connections
    /\ LinesWithId(lines, lastOp.id) = {}
    /\ Drafts(lines) # {}

\* ------------------------------------------------------------------ C36
\* C36: once a v1.connection.removed or a local delete for id X has been
\* processed, a drain of the Pending Queue alone never re-creates X: when
\* the handler that runs next after the removal is the drain pass, X is
\* neither in the Connection Store nor on the canvas after it.
C36_DrainNeverRecreates ==
    [][(lastOp.op \in {"removed", "delete"} /\ lastOp'.op = "drain")
          => /\ lastOp.id \notin DOMAIN connections'
             /\ LinesWithId(lines', lastOp.id) = {}]_vars

\* C37: in every reachable state no connectionId is both in the Connection
\* Store and in the Pending Queue.
C37_StoreAndQueueDisjoint ==
    \A id \in DOMAIN connections : ~IsQueued(pendingConnections, id)

\* ------------------------------------------------------------------ C39
\* the session is Dragging: the flag is set, a start port is recorded and
\* the draft line it refers to is a dashed line on the stage
Dragging ==
    /\ isWiring
    /\ startPort # NoPort
    /\ currentWire # NoLine
    /\ currentWire \in Drafts(lines)

\* C39: in every reachable state the wiring session is either Idle with no
\* start port and no draft edge, or Dragging with both a start port and a
\* draft edge; no state has one of the two without the other.
C39_IdleOrDragging ==
    /\ Idle(isWiring, currentWire, startPort) \/ Dragging
    /\ (startPort = NoPort) <=> (currentWire = NoLine)

\* a gesture was cancelled by a release on the stage: the session had a
\* start port and a draft, and now has neither
C39_Witness ==
    /\ lastOp.op = "stage_mouseup"
    /\ lastOp.res = "cancel"
    /\ Idle(isWiring, currentWire, startPort)

\* ------------------------------------------------------------------ C38
\* the connection ids client c has stored, each with its two endpoints
Endpoints(c) ==
    [id \in DOMAIN peers.store[c].connections |->
        <<peers.store[c].connections[id].from, peers.store[c].connections[id].to>>]

\* every message sent has been reflected by the relay and handled by both
\* clients
AllDelivered ==
    \A c \in Clients : peers.up[c] = <<>> /\ peers.down[c] = <<>>

C40_LoadingCanBeCleared ==
    chat.isLoading => (chat.readyState # "CLOSED" \/ chat.timers # {})

====
